---- MODULE Spec2Model ----
(***************************************************************************)
(* Model of the EMA-crossover signal generator (src/src/ema_signals.py)    *)
(* and of the MACD strategy / trade simulator (src/src/macd_strategy.py).  *)
(*                                                                         *)
(* Numbers.  Prices, EMA values, MACD values and profits are exact         *)
(* rationals <<num, den>> in lowest terms with den > 0 (the code uses      *)
(* binary floating point; the inputs of the model are chosen away from     *)
(* rounding ties, where the two could differ).                             *)
(* Missing values.  pd.NA / NaN is the empty tuple NA; a present number is *)
(* its rational <<num, den>>, a present string or trade id v is <<v>>.     *)
(* Rows.  Row k of a DataFrame (k = 0..n-1 after reset_index) is position  *)
(* k+1 of the column sequences.                                            *)
(***************************************************************************)
EXTENDS Integers, Sequences, FiniteSets, TLC

VARIABLES pc, history, data, edf, ema_period, df, raw_sig, fast, slow, signal, pip_size, idx, trade_counter, in_trade, entry_price, position

vars == <<pc, history, data, edf, ema_period, df, raw_sig, fast, slow, signal, pip_size, idx, trade_counter, in_trade, entry_price, position>>

stratVars == <<df, raw_sig, fast, slow, signal, pip_size>>

scanVars == <<idx, trade_counter, in_trade, entry_price, position>>

emaVars == <<edf, ema_period>>

-----------------------------------------------------------------------------
(* Bounds of the model *)

MaxBars == 3

MaxReruns == 1

-----------------------------------------------------------------------------
(* Exact rational arithmetic *)

Abs(x) == IF x < 0 THEN -x ELSE x

RECURSIVE Gcd(_, _)
Gcd(a, b) == IF b = 0 THEN a ELSE Gcd(b, a % b)

Norm(n, d) == LET g == Gcd(Abs(n), Abs(d)) s == IF d < 0 THEN -1 ELSE 1 IN <<s * (n \div g), s * (d \div g)>>

Rat(n) == <<n, 1>>

Lcm(a, b) == (a \div Gcd(a, b)) * b

RAdd(x, y) == LET l == Lcm(x[2], y[2]) IN Norm(x[1] * (l \div x[2]) + y[1] * (l \div y[2]), l)

RNeg(x) == <<-x[1], x[2]>>

RSub(x, y) == RAdd(x, RNeg(y))

RMul(x, y) == LET a == Norm(x[1], y[2]) b == Norm(y[1], x[2]) IN <<a[1] * b[1], a[2] * b[2]>>

RDiv(x, y) == RMul(x, Norm(y[2], y[1]))

RSign(x) == IF x[1] > 0 THEN 1 ELSE IF x[1] < 0 THEN -1 ELSE 0

RLt(x, y) == RSign(RSub(x, y)) < 0

RGt(x, y) == RLt(y, x)

RLe(x, y) == ~RLt(y, x)

RGe(x, y) == ~RLt(x, y)

(* nearest integer to n/d (d > 0), ties to the even neighbour *)
RoundHalfEven(n, d) == LET q == n \div d r == n % d IN IF 2 * r < d THEN q ELSE IF 2 * r > d THEN q + 1 ELSE IF q % 2 = 0 THEN q ELSE q + 1

(* Python's round(x, 5): a value with at most 5 decimals is returned as is *)
Round5(x) == IF 100000 % x[2] = 0 THEN x ELSE Norm(RoundHalfEven(x[1] * 100000, x[2]), 100000)

-----------------------------------------------------------------------------
(* Cells and columns *)

NA == <<>>

notna(x) == x # NA

isna(x) == x = NA

Col(n, v) == [k \in 1..n |-> v]

ClosePrices == {Rat(10), Rat(11)}

SignalVals == {NA, <<"long">>, <<"short">>}

HistVals == {Rat(-1), Rat(0), Rat(1)}

PipSizes == {Rat(1), Rat(300000)}

SignalName(period) == <<"Signal", period>>

EmaName(period) == <<"EMA", period>>

Name(s) == <<s, 0>>

(* A DataFrame: the set of its column names and the cells of the columns   *)
(* the program reads or writes; a column that is absent has no cells.      *)
Frame(closes) == [columns |-> {Name("Open"), Name("High"), Name("Low"), Name("Close")}, Close |-> closes, EMA |-> <<>>, Signal |-> <<>>, entry_signal |-> <<>>, exit_signal |-> <<>>, in_position |-> <<>>, profit |-> <<>>, exit_type |-> <<>>, trade_id |-> <<>>, MACD |-> <<>>, MACD_signal |-> <<>>, MACD_hist |-> <<>>]

NoFrame == [Frame(<<>>) EXCEPT !.columns = {}]

NRows(f) == Len(f.Close)

(* What a caller who repeats a run compares against: how many runs were    *)
(* repeated and the strategy's DataFrame as the first run left it.         *)
NoHistory == [runs |-> 0, first |-> NoFrame]

(* in a repeated run the configuration is the one of the first run *)
SameConfig(new, old) == history.runs = 0 \/ new = old

-----------------------------------------------------------------------------
(* pandas operations used by the program *)

(* variant: smoothing factor 1/span instead of 2/(span+1) *)
ewm_mean_simple_alpha(x, span) == LET alpha == Norm(1, span) e[i \in 1..Len(x)] == IF i = 1 THEN x[1] ELSE RAdd(RMul(alpha, x[i]), RMul(RSub(Rat(1), alpha), e[i - 1])) IN [i \in 1..Len(x) |-> e[i]]

(* Series.ewm(span=span, adjust=False).mean() *)
ewm_mean(x, span) == LET alpha == Norm(2, span + 1) e[i \in 1..Len(x)] == IF i = 1 THEN x[1] ELSE RAdd(RMul(alpha, x[i]), RMul(RSub(Rat(1), alpha), e[i - 1])) IN [i \in 1..Len(x) |-> e[i]]

(* Series.shift(1): the first cell is missing *)
shift(x) == [i \in 1..Len(x) |-> IF i = 1 THEN NA ELSE x[i - 1]]

(* elementwise comparisons of float cells; any comparison with a missing cell is False *)
gt(a, b) == notna(a) /\ notna(b) /\ RGt(a, b)

lt(a, b) == notna(a) /\ notna(b) /\ RLt(a, b)

ge(a, b) == notna(a) /\ notna(b) /\ RGe(a, b)

le(a, b) == notna(a) /\ notna(b) /\ RLe(a, b)

-----------------------------------------------------------------------------
(* EMASignal (ema_signals.py) *)

DefaultEmaPeriod == 89

(* the scenario of the specification: trend period 2, pip size 1 *)
ScenarioConfig == [trendPeriod |-> 2, pipSize |-> Rat(1)]

ScenarioPeriod == ScenarioConfig.trendPeriod

(* The periods a run is given, 0 being one that no EMA can have.           *)
(* The default period is run on series shorter                             *)
(* than the scenario's only: on four bars the exact fractions of the       *)
(* 55/89 MACD exceed the 32-bit integers of the model checker.             *)
EmaPeriods(d) == IF NRows(d) <= 3 THEN {0, ScenarioPeriod, DefaultEmaPeriod} ELSE {0, ScenarioPeriod}

required_cols == {Name("Open"), Name("High"), Name("Low"), Name("Close")}

(* EMASignal.__init__ *)
EMASignalInit == /\ pc = "start"
                 /\ \E period \in EmaPeriods(data) : SameConfig(period, ema_period) /\ ema_period' = period
                 /\ IF required_cols \subseteq data.columns THEN edf' = data /\ pc' = "ema_init" ELSE edf' = edf /\ pc' = "ValueError"
                 /\ UNCHANGED <<history, data, stratVars, scanVars>>

(* Series.ewm(span=span) raises ValueError("span must satisfy: span >= 1") *)
ewm_accepts(span) == span >= 1

(* EMASignal.calculate_ema: the method itself checks nothing, the ewm call *)
(* of line 42 raises before the column is assigned                         *)
calculate_ema == /\ pc = "ema_init"
                 /\ IF ewm_accepts(ema_period) THEN edf' = [edf EXCEPT !.columns = @ \cup {EmaName(ema_period)}, !.EMA = ewm_mean(edf.Close, ema_period)] /\ pc' = "ema_done" ELSE edf' = edf /\ pc' = "ValueError"
                 /\ UNCHANGED <<history, data, ema_period, stratVars, scanVars>>

(* variant of line 61: close >= ema *)
cross_above_nonstrict(close, ema) == [i \in 1..Len(close) |-> ge(close[i], ema[i]) /\ le(shift(close)[i], shift(ema)[i])]

cross_above(close, ema) == [i \in 1..Len(close) |-> gt(close[i], ema[i]) /\ le(shift(close)[i], shift(ema)[i])]

cross_below(close, ema) == [i \in 1..Len(close) |-> lt(close[i], ema[i]) /\ ge(shift(close)[i], shift(ema)[i])]

(* the signal column: all NA, then 'long' where cross_above, then 'short' where cross_below *)
signal_column(close, ema) == [i \in 1..Len(close) |-> IF cross_below(close, ema)[i] THEN <<"short">> ELSE IF cross_above(close, ema)[i] THEN <<"long">> ELSE NA]

(* EMASignal.generate_signals *)
generate_signals == /\ pc \in {"ema_init", "ema_done"}
                    /\ IF EmaName(ema_period) \notin edf.columns THEN edf' = edf /\ pc' = "RuntimeError" ELSE edf' = [edf EXCEPT !.columns = @ \cup {SignalName(ema_period)}, !.Signal = signal_column(edf.Close, edf.EMA)] /\ pc' = "signals_done"
                    /\ UNCHANGED <<history, data, ema_period, stratVars, scanVars>>

-----------------------------------------------------------------------------
(* MACDStrategy (macd_strategy.py) *)

DefaultFast == 55

DefaultSlow == 89

DefaultSignal == 8

DefaultPipSize == Norm(1, 10000)

ScenarioPipSize == ScenarioConfig.pipSize

SlowPeriods == {ScenarioPeriod, DefaultSlow}

(* the columns __init__ adds to its copy of the input *)
StrategyFrame(d) == LET n == NRows(d) IN [d EXCEPT !.columns = @ \cup {Name("entry_signal"), Name("exit_signal"), Name("in_position"), Name("profit"), Name("exit_type"), Name("trade_id"), Name("MACD"), Name("MACD_signal"), Name("MACD_hist")}, !.entry_signal = Col(n, NA), !.exit_signal = Col(n, NA), !.in_position = Col(n, FALSE), !.profit = Col(n, NA), !.exit_type = Col(n, NA), !.trade_id = Col(n, NA), !.MACD = Col(n, NA), !.MACD_signal = Col(n, NA), !.MACD_hist = Col(n, NA)]

(* variant of line 32: only 'Close' is looked for *)
has_required_close_only(d, sig) == Name("Close") \in d.columns

(* variant of line 32: any crossover column will do, whatever period it is named after *)
has_required_any_signal(d, sig) == Name("Close") \in d.columns /\ (\E c \in d.columns : c[1] = "Signal")

(* the check of the input's columns in __init__ *)
has_required(d, sig) == Name("Close") \in d.columns /\ sig \in d.columns

(* the frame the caller holds at each stage: the raw input, then the EMASignal's DataFrame *)
CallerFrame == IF pc = "start" THEN data ELSE edf

(* MACDStrategy.__init__, given the frame the caller holds *)
MACDStrategyInit == /\ pc \in {"start", "ema_init", "ema_done", "signals_done"}
                    /\ \E slow_period \in SlowPeriods : /\ SameConfig(slow_period, slow)
                                                        /\ raw_sig' = SignalName(slow_period)
                                                        /\ IF has_required(CallerFrame, SignalName(slow_period)) THEN df' = StrategyFrame(CallerFrame) /\ fast' = DefaultFast /\ slow' = slow_period /\ signal' = DefaultSignal /\ pip_size' \in {ps \in {ScenarioPipSize, DefaultPipSize} : SameConfig(ps, pip_size)} /\ pc' = "strategy_init" ELSE UNCHANGED <<df, fast, slow, signal, pip_size>> /\ pc' = "ValueError"
                    /\ UNCHANGED <<history, data, emaVars, scanVars>>

(* MACDStrategy.calculate_macd *)
macd_line(close, f, s) == LET fast_ema == ewm_mean(close, f) slow_ema == ewm_mean(close, s) IN [i \in 1..Len(close) |-> RSub(fast_ema[i], slow_ema[i])]

macd_hist(macd, sg) == LET sl == ewm_mean(macd, sg) IN [i \in 1..Len(macd) |-> RSub(macd[i], sl[i])]

calculate_macd == /\ pc = "strategy_init"
                  /\ LET macd == macd_line(df.Close, fast, slow) IN df' = [df EXCEPT !.MACD = macd, !.MACD_signal = ewm_mean(macd, signal), !.MACD_hist = macd_hist(macd, signal)]
                  /\ pc' = "macd_done"
                  /\ UNCHANGED <<history, data, emaVars, raw_sig, fast, slow, signal, pip_size, scanVars>>

(* a repeated run starts from a completed one; the first output is kept for comparison *)
CanRepeat == pc = "done" /\ history.runs < MaxReruns

Repeated == [runs |-> history.runs + 1, first |-> IF history.runs = 0 THEN df ELSE history.first]

(* variant of lines 72-76: the trade counter survives from the previous call *)
simulate_trades_begin_keep_counter == /\ pc \in {"strategy_init", "macd_done"} \/ CanRepeat
                                      /\ idx' = 1 /\ trade_counter' = trade_counter /\ in_trade' = FALSE /\ entry_price' = NA /\ position' = NA
                                      /\ history' = IF pc = "done" THEN Repeated ELSE history
                                      /\ pc' = "scan"
                                      /\ UNCHANGED <<data, emaVars, stratVars>>

(* simulate_trades: the locals before the loop (lines 72-76); the method   *)
(* can be called on a new strategy, after calculate_macd, or once more     *)
(* after a completed call                                                  *)
simulate_trades_begin == /\ pc \in {"strategy_init", "macd_done"} \/ CanRepeat
                         /\ idx' = 1 /\ trade_counter' = 0 /\ in_trade' = FALSE /\ entry_price' = NA /\ position' = NA
                         /\ history' = IF pc = "done" THEN Repeated ELSE history
                         /\ pc' = "scan"
                         /\ UNCHANGED <<data, emaVars, stratVars>>

(* the caller runs the whole chain once more on the same input with the    *)
(* same configuration, on new objects                                      *)
pipeline_again == /\ CanRepeat
                  /\ history' = Repeated
                  /\ pc' = "start"
                  /\ edf' = NoFrame /\ df' = NoFrame
                  /\ UNCHANGED <<data, ema_period, raw_sig, fast, slow, signal, pip_size, scanVars>>

is_signal(raw) == notna(raw) /\ raw \in {<<"long">>, <<"short">>}

(* variant: the entry test of line 83 without "not in_trade" *)
entry_cond_reentrant(it, raw) == is_signal(raw)

(* line 83: detect entry if not in trade and raw signal is valid *)
entry_cond(it, raw) == ~it /\ is_signal(raw)

(* variant of line 100: any crossover signal closes the trade, the same direction included *)
ema_exit_cond_any_signal(raw, pos) == is_signal(raw)

(* line 100: forced exit on opposite raw EMA signal *)
ema_exit_cond(raw, pos) == is_signal(raw) /\ raw # pos

(* variant of line 111: non-strict comparisons *)
macd_exit_cond_nonstrict(pos, hist) == (pos = <<"long">> /\ le(hist, Rat(0))) \/ (pos = <<"short">> /\ ge(hist, Rat(0)))

(* line 111: MACD exit *)
macd_exit_cond(pos, hist) == (pos = <<"long">> /\ lt(hist, Rat(0))) \/ (pos = <<"short">> /\ gt(hist, Rat(0)))

(* variant of lines 101/112: the two directions swapped *)
profit_pips_swapped(pos, close, entry, pip) == Round5(RDiv(IF pos = <<"long">> THEN RSub(entry, close) ELSE RSub(close, entry), pip))

(* lines 101/112 and the rounding of lines 104/115 *)
profit_pips(pos, close, entry, pip) == Round5(RDiv(IF pos = <<"long">> THEN RSub(close, entry) ELSE RSub(entry, close), pip))

(* variant of lines 102 and 113: the tag names the other direction *)
exit_tag_swapped(pos) == IF pos = <<"long">> THEN <<"exit_short">> ELSE <<"exit_long">>

exit_tag(pos) == IF pos = <<"long">> THEN <<"exit_long">> ELSE <<"exit_short">>

(* variant of line 87 *)
next_id_skip(tc) == tc + 2

(* line 87 *)
next_id(tc) == tc + 1

InLoop == pc = "scan" /\ idx <= NRows(df)

(* variant of lines 83-92 without the continue of line 92: the MACD exit test is run on the entry bar *)
Entry_checks_exit == /\ InLoop
                     /\ entry_cond(in_trade, df.Signal[idx])
                     /\ position' = df.Signal[idx]
                     /\ entry_price' = df.Close[idx]
                     /\ trade_counter' = next_id(trade_counter)
                     /\ IF macd_exit_cond(df.Signal[idx], df.MACD_hist[idx]) THEN in_trade' = FALSE /\ df' = [df EXCEPT !.entry_signal[idx] = df.Signal[idx], !.in_position[idx] = TRUE, !.trade_id[idx] = <<next_id(trade_counter)>>, !.exit_signal[idx] = exit_tag(df.Signal[idx]), !.exit_type[idx] = <<"macd">>, !.profit[idx] = profit_pips(df.Signal[idx], df.Close[idx], df.Close[idx], pip_size)] ELSE in_trade' = TRUE /\ df' = [df EXCEPT !.entry_signal[idx] = df.Signal[idx], !.in_position[idx] = TRUE, !.trade_id[idx] = <<next_id(trade_counter)>>]
                     /\ idx' = idx + 1
                     /\ UNCHANGED <<history, pc, data, emaVars, raw_sig, fast, slow, signal, pip_size>>

(* lines 83-92 *)
Entry == /\ InLoop
         /\ entry_cond(in_trade, df.Signal[idx])
         /\ in_trade' = TRUE
         /\ position' = df.Signal[idx]
         /\ entry_price' = df.Close[idx]
         /\ trade_counter' = next_id(trade_counter)
         /\ df' = [df EXCEPT !.entry_signal[idx] = df.Signal[idx], !.in_position[idx] = TRUE, !.trade_id[idx] = <<next_id(trade_counter)>>]
         /\ idx' = idx + 1
         /\ UNCHANGED <<history, pc, data, emaVars, raw_sig, fast, slow, signal, pip_size>>

(* variant of lines 95-107: the MACD test decides the recorded reason first *)
ExitEmaCross_macd_first == /\ InLoop
                           /\ ~entry_cond(in_trade, df.Signal[idx])
                           /\ in_trade
                           /\ ema_exit_cond(df.Signal[idx], position)
                           /\ df' = [df EXCEPT !.in_position[idx] = TRUE, !.trade_id[idx] = <<trade_counter>>, !.exit_signal[idx] = exit_tag(position), !.exit_type[idx] = IF macd_exit_cond(position, df.MACD_hist[idx]) THEN <<"macd">> ELSE <<"ema_cross">>, !.profit[idx] = profit_pips(position, df.Close[idx], entry_price, pip_size)]
                           /\ in_trade' = FALSE
                           /\ idx' = idx + 1
                           /\ UNCHANGED <<history, pc, data, emaVars, raw_sig, fast, slow, signal, pip_size, trade_counter, entry_price, position>>

(* variant of lines 95-107: stop-and-reverse, the reversal signal also opens the next trade *)
ExitEmaCross_reverse == /\ InLoop
                        /\ ~entry_cond(in_trade, df.Signal[idx])
                        /\ in_trade
                        /\ ema_exit_cond(df.Signal[idx], position)
                        /\ df' = [df EXCEPT !.in_position[idx] = TRUE, !.trade_id[idx] = <<trade_counter>>, !.exit_signal[idx] = exit_tag(position), !.exit_type[idx] = <<"ema_cross">>, !.profit[idx] = profit_pips(position, df.Close[idx], entry_price, pip_size), !.entry_signal[idx] = df.Signal[idx]]
                        /\ in_trade' = TRUE
                        /\ position' = df.Signal[idx]
                        /\ entry_price' = df.Close[idx]
                        /\ trade_counter' = trade_counter + 1
                        /\ idx' = idx + 1
                        /\ UNCHANGED <<history, pc, data, emaVars, raw_sig, fast, slow, signal, pip_size>>

(* lines 95-107 *)
ExitEmaCross == /\ InLoop
                /\ ~entry_cond(in_trade, df.Signal[idx])
                /\ in_trade
                /\ ema_exit_cond(df.Signal[idx], position)
                /\ df' = [df EXCEPT !.in_position[idx] = TRUE, !.trade_id[idx] = <<trade_counter>>, !.exit_signal[idx] = exit_tag(position), !.exit_type[idx] = <<"ema_cross">>, !.profit[idx] = profit_pips(position, df.Close[idx], entry_price, pip_size)]
                /\ in_trade' = FALSE
                /\ idx' = idx + 1
                /\ UNCHANGED <<history, pc, data, emaVars, raw_sig, fast, slow, signal, pip_size, trade_counter, entry_price, position>>

(* variant of lines 109-118: the profit is also recorded on the entry row of the trade *)
ExitMacd_profit_on_entry_row == /\ InLoop
                                /\ ~entry_cond(in_trade, df.Signal[idx])
                                /\ in_trade
                                /\ ~ema_exit_cond(df.Signal[idx], position)
                                /\ notna(df.MACD_hist[idx])
                                /\ macd_exit_cond(position, df.MACD_hist[idx])
                                /\ LET e == CHOOSE j \in 1..(idx - 1) : notna(df.entry_signal[j]) /\ df.trade_id[j] = <<trade_counter>> IN df' = [df EXCEPT !.in_position[idx] = TRUE, !.trade_id[idx] = <<trade_counter>>, !.exit_signal[idx] = exit_tag(position), !.exit_type[idx] = <<"macd">>, !.profit[idx] = profit_pips(position, df.Close[idx], entry_price, pip_size), !.profit[e] = profit_pips(position, df.Close[idx], entry_price, pip_size)]
                                /\ in_trade' = FALSE
                                /\ idx' = idx + 1
                                /\ UNCHANGED <<history, pc, data, emaVars, raw_sig, fast, slow, signal, pip_size, trade_counter, entry_price, position>>

(* lines 95-97 and 109-118 *)
ExitMacd == /\ InLoop
            /\ ~entry_cond(in_trade, df.Signal[idx])
            /\ in_trade
            /\ ~ema_exit_cond(df.Signal[idx], position)
            /\ notna(df.MACD_hist[idx])
            /\ macd_exit_cond(position, df.MACD_hist[idx])
            /\ df' = [df EXCEPT !.in_position[idx] = TRUE, !.trade_id[idx] = <<trade_counter>>, !.exit_signal[idx] = exit_tag(position), !.exit_type[idx] = <<"macd">>, !.profit[idx] = profit_pips(position, df.Close[idx], entry_price, pip_size)]
            /\ in_trade' = FALSE
            /\ idx' = idx + 1
            /\ UNCHANGED <<history, pc, data, emaVars, raw_sig, fast, slow, signal, pip_size, trade_counter, entry_price, position>>

(* lines 95-97, no exit condition met *)
Hold == /\ InLoop
        /\ ~entry_cond(in_trade, df.Signal[idx])
        /\ in_trade
        /\ ~ema_exit_cond(df.Signal[idx], position)
        /\ notna(df.MACD_hist[idx])
        /\ ~macd_exit_cond(position, df.MACD_hist[idx])
        /\ df' = [df EXCEPT !.in_position[idx] = TRUE, !.trade_id[idx] = <<trade_counter>>]
        /\ idx' = idx + 1
        /\ UNCHANGED <<history, pc, data, emaVars, raw_sig, fast, slow, signal, pip_size, trade_counter, in_trade, entry_price, position>>

(* lines 95-97 and 110-111 with the histogram cell still pd.NA: hist < 0  *)
(* and hist > 0 are pd.NA, whose truth value the test of line 111 cannot  *)
(* take (TypeError), after lines 96-97 have written the row               *)
MacdTestRaises == /\ InLoop
                  /\ ~entry_cond(in_trade, df.Signal[idx])
                  /\ in_trade
                  /\ ~ema_exit_cond(df.Signal[idx], position)
                  /\ isna(df.MACD_hist[idx])
                  /\ df' = [df EXCEPT !.in_position[idx] = TRUE, !.trade_id[idx] = <<trade_counter>>]
                  /\ pc' = "TypeError"
                  /\ UNCHANGED <<history, data, emaVars, raw_sig, fast, slow, signal, pip_size, scanVars>>

(* neither line 83 nor line 95 *)
Skip == /\ InLoop
        /\ ~entry_cond(in_trade, df.Signal[idx])
        /\ ~in_trade
        /\ idx' = idx + 1
        /\ UNCHANGED <<history, pc, data, emaVars, stratVars, trade_counter, in_trade, entry_price, position>>

(* line 121, overwritten by line 123 *)
in_position_121(d) == [i \in 1..NRows(d) |-> notna(d.trade_id[i]) /\ isna(d.exit_signal[i])]

(* variant of line 123: the exit rows left out, as line 121 has it *)
in_position_no_exit_rows(d) == [i \in 1..NRows(d) |-> notna(d.trade_id[i]) /\ isna(d.exit_signal[i])]

(* line 123: & binds tighter than | *)
in_position_123(d) == [i \in 1..NRows(d) |-> (notna(d.trade_id[i]) /\ isna(d.exit_signal[i])) \/ notna(d.exit_signal[i])]

(* variant of lines 120-124: a trade still open after the loop is closed on the last row *)
Cleanup_force_close == /\ pc = "scan"
                       /\ idx > NRows(df)
                       /\ LET n == NRows(df) d == IF in_trade /\ n > 0 THEN [df EXCEPT !.exit_signal[n] = exit_tag(position), !.exit_type[n] = <<"end">>, !.profit[n] = profit_pips(position, df.Close[n], entry_price, pip_size)] ELSE df IN df' = [d EXCEPT !.in_position = in_position_123(d)]
                       /\ pc' = "done"
                       /\ UNCHANGED <<history, data, emaVars, raw_sig, fast, slow, signal, pip_size, scanVars>>

(* lines 120-124, after the loop *)
Cleanup == /\ pc = "scan"
           /\ idx > NRows(df)
           /\ df' = [df EXCEPT !.in_position = in_position_123([df EXCEPT !.in_position = in_position_121(df)])]
           /\ pc' = "done"
           /\ UNCHANGED <<history, data, emaVars, raw_sig, fast, slow, signal, pip_size, scanVars>>

ScanStep == Entry \/ ExitEmaCross \/ ExitMacd \/ Hold \/ Skip \/ Cleanup

-----------------------------------------------------------------------------
(* Spec: simulate_trades on any bars. The state after __init__ and         *)
(* calculate_macd, with the crossover signal, the histogram and the pip    *)
(* size unconstrained.                                                     *)

InputFrame(closes, raws) == [Frame(closes) EXCEPT !.columns = @ \cup {EmaName(DefaultSlow), SignalName(DefaultSlow)}, !.EMA = closes, !.Signal = raws]

Init == /\ pc = "scan"
        /\ history = NoHistory
        /\ \E n \in 0..MaxBars : \E closes \in [1..n -> ClosePrices], raws \in [1..n -> SignalVals], hists \in [1..n -> HistVals] : data = InputFrame(closes, raws) /\ df = [StrategyFrame(data) EXCEPT !.MACD = hists, !.MACD_signal = Col(n, Rat(0)), !.MACD_hist = hists]
        /\ edf = NoFrame /\ ema_period = DefaultEmaPeriod
        /\ raw_sig = SignalName(DefaultSlow) /\ fast = DefaultFast /\ slow = DefaultSlow /\ signal = DefaultSignal
        /\ pip_size \in PipSizes
        /\ idx = 1 /\ trade_counter = 0 /\ in_trade = FALSE /\ entry_price = NA /\ position = NA

Next == ScanStep

Spec == Init /\ [][Next]_vars

-----------------------------------------------------------------------------
(* SpecSignals: generate_signals on any Close and EMA columns *)

EmaVals == ClosePrices \cup {Norm(21, 2)}

InitSignals == /\ pc = "ema_done"
               /\ history = NoHistory
               /\ ema_period = DefaultEmaPeriod
               /\ \E n \in 1..MaxBars : \E closes \in [1..n -> ClosePrices], emas \in [1..n -> EmaVals] : data = Frame(closes) /\ edf = [Frame(closes) EXCEPT !.columns = @ \cup {EmaName(DefaultEmaPeriod)}, !.EMA = emas]
               /\ df = NoFrame
               /\ raw_sig = SignalName(DefaultSlow) /\ fast = DefaultFast /\ slow = DefaultSlow /\ signal = DefaultSignal /\ pip_size = DefaultPipSize
               /\ idx = 1 /\ trade_counter = 0 /\ in_trade = FALSE /\ entry_price = NA /\ position = NA

NextSignals == generate_signals

SpecSignals == InitSignals /\ [][NextSignals]_vars

-----------------------------------------------------------------------------
(* SpecPipeline: process_ema_signals, then MACDStrategy, calculate_macd    *)
(* and simulate_trades, as the __main__ block of macd_strategy.py chains   *)
(* them, on the bars of the scenario and its neighbours.                   *)

ScenarioClose == <<Rat(10), Rat(12), Rat(11), Rat(9)>>

ScenarioPrices == {ScenarioClose[i] : i \in 1..Len(ScenarioClose)}

(* a caller's frame that has a crossover column and no Close *)
NoCloseFrame(period, raws) == [Frame(<<>>) EXCEPT !.columns = (@ \ {Name("Close")}) \cup {SignalName(period)}, !.Signal = raws]

PipelineInputs == {Frame(closes) : closes \in UNION {[1..n -> ScenarioPrices] : n \in 0..Len(ScenarioClose)}} \cup {NoCloseFrame(period, <<NA, <<"long">>>>) : period \in SlowPeriods}

InitPipeline == /\ pc = "start"
                /\ history = NoHistory
                /\ data \in PipelineInputs
                /\ edf = NoFrame /\ ema_period = DefaultEmaPeriod
                /\ df = NoFrame
                /\ raw_sig = SignalName(DefaultSlow) /\ fast = DefaultFast /\ slow = DefaultSlow /\ signal = DefaultSignal /\ pip_size = DefaultPipSize
                /\ idx = 1 /\ trade_counter = 0 /\ in_trade = FALSE /\ entry_price = NA /\ position = NA

NextPipeline == EMASignalInit \/ calculate_ema \/ generate_signals \/ MACDStrategyInit \/ calculate_macd \/ simulate_trades_begin \/ ScanStep \/ MacdTestRaises \/ pipeline_again

SpecPipeline == InitPipeline /\ [][NextPipeline]_vars

-----------------------------------------------------------------------------
(* Reading the annotated output *)

Rows == 1..NRows(df)

(* rows the scan has gone through *)
Done(i) == i \in Rows /\ (pc = "done" \/ i < idx)

DoneRows == {i \in Rows : Done(i)}

TradeIds == {df.trade_id[i][1] : i \in {j \in Rows : notna(df.trade_id[j])}}

EntryRows(t) == {i \in Rows : notna(df.entry_signal[i]) /\ df.trade_id[i] = <<t>>}

ExitRows(t) == {i \in Rows : notna(df.exit_signal[i]) /\ df.trade_id[i] = <<t>>}

AllEntryRows == {i \in Rows : notna(df.entry_signal[i])}

AllExitRows == {i \in Rows : notna(df.exit_signal[i]) \/ notna(df.exit_type[i]) \/ notna(df.profit[i])}

(* [entryIndex, exitIndex or last row gone through] of trade t *)
Interval(t) == {i \in DoneRows : (\E e \in EntryRows(t) : e <= i) /\ (\A x \in ExitRows(t) : i <= x)}

OpenTrades == {t \in TradeIds : EntryRows(t) # {} /\ ExitRows(t) = {}}

Opposite(raw, pos) == (raw = <<"long">> /\ pos = <<"short">>) \/ (raw = <<"short">> /\ pos = <<"long">>)

-----------------------------------------------------------------------------
(* C1: after any prefix of the bars at most one trade is open, and the     *)
(* intervals [entryIndex, exitIndex or end] of distinct trade ids are      *)
(* pairwise disjoint.                                                      *)
C1_OneTradeAtATime == /\ Cardinality(OpenTrades) <= 1
                      /\ \A t1, t2 \in TradeIds : t1 # t2 => Interval(t1) \cap Interval(t2) = {}
                      /\ \A i \in DoneRows : Cardinality({t \in TradeIds : i \in Interval(t)}) <= 1

C1_Witness == pc = "done" /\ Cardinality(TradeIds) = 2 /\ Cardinality(OpenTrades) = 1 /\ \A t \in TradeIds : Interval(t) # {}

(* C2: while a trade is open, a bar with the opposite crossover signal     *)
(* exits the trade on that bar with reason ema_cross whatever the          *)
(* histogram is, also when the MACD exit condition holds on that bar;      *)
(* macd is never the recorded reason on such a bar.                        *)
C2_CrossReversalPriority == [][(InLoop /\ in_trade /\ Opposite(df.Signal[idx], position)) => (df'.exit_type[idx] = <<"ema_cross">> /\ df'.exit_signal[idx] = exit_tag(position) /\ df'.trade_id[idx] = <<trade_counter>> /\ ~in_trade' /\ idx' = idx + 1)]_vars

C2_Witness == \E i \in DoneRows : df.exit_type[i] = <<"ema_cross">> /\ ((df.exit_signal[i] = <<"exit_long">> /\ RLt(df.MACD_hist[i], Rat(0))) \/ (df.exit_signal[i] = <<"exit_short">> /\ RGt(df.MACD_hist[i], Rat(0))))

LaterTrade(e, x) == notna(df.trade_id[e]) /\ notna(df.trade_id[x]) /\ df.trade_id[e][1] > df.trade_id[x][1]

(* C3: a bar on which a trade exits never opens a trade; the scan is flat  *)
(* after it and every later trade enters on a strictly later bar.          *)
C3_NoEntryOnExitBar == \A x \in AllExitRows : (isna(df.entry_signal[x])) /\ ((pc = "scan" /\ x = idx - 1) => ~in_trade) /\ (\A e \in AllEntryRows : LaterTrade(e, x) => e > x)

C3_Witness == \E x \in AllExitRows : x + 1 \in AllEntryRows /\ df.exit_type[x] = <<"ema_cross">>

EntryRank(e) == Cardinality({j \in AllEntryRows : j <= e})

(* C4: trade ids are assigned only on entry rows; the k-th entry row in    *)
(* row order carries id k, so ids start at 1 and increase by 1.            *)
C4_TradeIdsSequential == (\A e \in AllEntryRows : df.trade_id[e] = <<EntryRank(e)>>) /\ (\A i \in Rows : notna(df.trade_id[i]) => (\E e \in EntryRows(df.trade_id[i][1]) : e <= i)) /\ (trade_counter = Cardinality(AllEntryRows))

C4_Witness == pc = "done" /\ Cardinality(AllEntryRows) = 2 /\ \E i \in Rows : df.trade_id[i] = <<2>>

(* the entry row of the trade a closed row x belongs to *)
EntryRowOf(x) == CHOOSE e \in Rows : notna(df.entry_signal[e]) /\ df.trade_id[e] = df.trade_id[x]

Closed(x) == x \in Rows /\ notna(df.profit[x]) /\ notna(df.trade_id[x]) /\ EntryRows(df.trade_id[x][1]) # {}

(* exitPrice > entryPrice for a long trade, exitPrice < entryPrice for a short one *)
Favorable(x) == LET e == EntryRowOf(x) IN IF df.entry_signal[e] = <<"long">> THEN RGt(df.Close[x], df.Close[e]) ELSE RLt(df.Close[x], df.Close[e])

(* |exitPrice - entryPrice| / pipSize *)
MovePips(x) == LET d == RDiv(RSub(df.Close[x], df.Close[EntryRowOf(x)]), pip_size) IN <<Abs(d[1]), d[2]>>

(* C5 as stated: for every closed trade the recorded profit is > 0 iff the *)
(* exit price is on the favorable side of the entry price.                 *)
C5_ProfitSignIff == \A x \in Rows : Closed(x) => (RSign(df.profit[x]) > 0 <=> Favorable(x))

ProfitSignRounded(x) == (RSign(df.profit[x]) > 0 => Favorable(x)) /\ (Favorable(x) => RSign(df.profit[x]) >= 0) /\ ((Favorable(x) /\ RGe(MovePips(x), Norm(1, 100000))) => RSign(df.profit[x]) > 0) /\ (RLt(MovePips(x), Norm(1, 200000)) => RSign(df.profit[x]) = 0)

(* C5 amended: the recorded profit is > 0 only if the exit is favorable; a *)
(* favorable exit records a profit >= 0, which is > 0 whenever the move is *)
(* at least one rounding step (0.00001 pips) and is 0 when the move is     *)
(* less than half a step.                                                  *)
C5_ProfitSignRounded == \A x \in Rows : Closed(x) => ProfitSignRounded(x)

C5_Witness == \E x \in Rows : Closed(x) /\ Favorable(x) /\ RSign(df.profit[x]) = 0

MomentumFlip == (position = <<"long">> /\ RLt(df.MACD_hist[idx], Rat(0))) \/ (position = <<"short">> /\ RGt(df.MACD_hist[idx], Rat(0)))

ExitsByMacd == df'.exit_type[idx] = <<"macd">> /\ df'.exit_signal[idx] = exit_tag(position) /\ notna(df'.profit[idx]) /\ ~in_trade'

StaysOpen == in_trade' /\ isna(df'.exit_type[idx]) /\ isna(df'.exit_signal[idx]) /\ isna(df'.profit[idx])

SameTrade == df'.trade_id[idx] = <<trade_counter>> /\ trade_counter' = trade_counter /\ position' = position /\ entry_price' = entry_price

(* C6: while a trade is open and the bar's crossover signal is not the     *)
(* opposite direction, the trade exits with reason macd iff (long and      *)
(* histogram < 0) or (short and histogram > 0); otherwise, histogram 0     *)
(* included, it stays open in the same direction and the bar carries the   *)
(* trade id and no exit field.                                             *)
C6_MomentumFlipExit == [][(InLoop /\ in_trade /\ ~Opposite(df.Signal[idx], position)) => (SameTrade /\ (MomentumFlip => ExitsByMacd) /\ (~MomentumFlip => StaysOpen))]_vars

C6_Witness == \E i, j \in DoneRows : (df.exit_type[i] = <<"macd">>) /\ (notna(df.trade_id[j]) /\ isna(df.entry_signal[j]) /\ isna(df.exit_signal[j]) /\ df.MACD_hist[j] = Rat(0))

(* C7: after the full pass in_position is true exactly on the bars that    *)
(* carry a trade id, entry and exit bars included.                         *)
C7_InPositionIffTradeId == pc = "done" => \A i \in Rows : df.in_position[i] <=> notna(df.trade_id[i])

C7_Witness == pc = "done" /\ \E i, j, k \in Rows : notna(df.exit_signal[i]) /\ df.in_position[i] /\ notna(df.entry_signal[j]) /\ df.in_position[j] /\ isna(df.trade_id[k]) /\ ~df.in_position[k]

NoExitFields(i) == isna(df.exit_signal[i]) /\ isna(df.exit_type[i]) /\ isna(df.profit[i])

(* C8: a trade still open after the last bar is not closed: no exit        *)
(* signal, exit type or profit is written for it, and every bar from its   *)
(* entry bar to the last bar carries its trade id.                         *)
C8_NoForcedClose == (pc = "done" /\ in_trade) => ((EntryRows(trade_counter) # {}) /\ (\A i \in Rows : df.trade_id[i] = <<trade_counter>> => NoExitFields(i)) /\ (\A e \in EntryRows(trade_counter) : \A i \in e..NRows(df) : df.trade_id[i] = <<trade_counter>>))

C8_Witness == pc = "done" /\ in_trade /\ \E e \in EntryRows(trade_counter) : e < NRows(df) /\ isna(df.entry_signal[NRows(df)])

CrossLong(i) == i >= 2 /\ RGt(edf.Close[i], edf.EMA[i]) /\ RLe(edf.Close[i - 1], edf.EMA[i - 1])

CrossShort(i) == i >= 2 /\ RLt(edf.Close[i], edf.EMA[i]) /\ RGe(edf.Close[i - 1], edf.EMA[i - 1])

CrossEvent(i) == IF CrossLong(i) THEN <<"long">> ELSE IF CrossShort(i) THEN <<"short">> ELSE NA

(* C9: generate_signals leaves no signal on the first bar; on bar i >= 1   *)
(* the signal is long exactly when Close[i] > EMA[i] and Close[i-1] <=     *)
(* EMA[i-1], short exactly when Close[i] < EMA[i] and Close[i-1] >=        *)
(* EMA[i-1], none otherwise; a bar with Close = EMA carries no signal and  *)
(* no bar is both long and short.                                          *)
C9_CrossEvents == pc = "signals_done" => ((Len(edf.Signal) = NRows(edf)) /\ (edf.Signal[1] = NA) /\ (\A i \in 1..NRows(edf) : (edf.Signal[i] = CrossEvent(i)) /\ ~(CrossLong(i) /\ CrossShort(i)) /\ (edf.Close[i] = edf.EMA[i] => edf.Signal[i] = NA)))

C9_Witness == pc = "signals_done" /\ \E i, j \in 2..NRows(edf) : (edf.Signal[i] = <<"long">>) /\ (edf.Close[j] = edf.EMA[j] /\ RLt(edf.Close[j - 1], edf.EMA[j - 1]) /\ edf.Signal[j] = NA)

Terminal == pc \in {"done", "ValueError", "RuntimeError", "TypeError"}

ScenarioOutput == (pc = "done") /\ (edf.Signal = <<NA, <<"long">>, <<"short">>, NA>>) /\ (df.Signal = edf.Signal) /\ (df.trade_id = <<NA, <<1>>, <<1>>, NA>>) /\ (df.exit_type = <<NA, NA, <<"ema_cross">>, NA>>) /\ (df.profit = <<NA, NA, Rat(-1), NA>>) /\ (df.in_position = <<FALSE, TRUE, TRUE, FALSE>>)

(* the scenario's run has ended: Close = [10, 12, 11, 9], trend period 2,  *)
(* the strategy built with slow period sp, pip size 1 and the defaults     *)
ScenarioRunEnded(sp) == Terminal /\ data.Close = ScenarioClose /\ ema_period = ScenarioPeriod /\ edf.Signal # <<>> /\ raw_sig = SignalName(sp) /\ (pc = "done" => (pip_size = ScenarioPipSize /\ fast = DefaultFast /\ signal = DefaultSignal))

(* C10 as stated: the pipeline on Close = [10, 12, 11, 9] with trend       *)
(* period 2, pip size 1 and every other value at its default (slow period *)
(* 89) ends with crossEvent = [None, Long, Short, None], tradeId = [None,  *)
(* 1, 1, None], exitType = [None, None, CrossReversal, None], profitPips = *)
(* [None, None, -1.0, None], inPosition = [False, True, True, False].      *)
C10_ScenarioDefaults == ScenarioRunEnded(DefaultSlow) => ScenarioOutput

(* C10 amended: the same run with the slow period also set to 2, the name  *)
(* under which the simulator reads the crossover column, ends with the     *)
(* stated output.                                                          *)
C10_ScenarioSlowTwo == ScenarioRunEnded(ScenarioPeriod) => ScenarioOutput

C10_Witness == ScenarioRunEnded(ScenarioPeriod) /\ pc = "done" /\ df.profit[3] = Rat(-1)

-----------------------------------------------------------------------------
(* Repeated runs *)

(* the input as the caller built it: its own columns, nothing added *)
InputUntouched == data \in PipelineInputs /\ data.EMA = <<>> /\ data.entry_signal = <<>> /\ data.trade_id = <<>> /\ data.MACD_hist = <<>>

(* a repeated run that went through the same stages as the first one has ended *)
RepeatedRunEnded == pc = "done" /\ history.runs >= 1 /\ df.MACD_hist = history.first.MACD_hist

(* C11: running the pipeline again on the same input with the same         *)
(* configuration, or calling simulate_trades once more on the same         *)
(* strategy, ends with the same per-bar output as the first run, and the   *)
(* caller's input series is the same after a run as before it.             *)
C11_RepeatedRunSame == (pc \in {"done", "TypeError"} => InputUntouched) /\ (RepeatedRunEnded => df = history.first)

C11_Witness == RepeatedRunEnded /\ NRows(df) >= 3 /\ AllExitRows # {} /\ (\A i \in Rows : notna(df.MACD_hist[i])) /\ df = history.first /\ InputUntouched

-----------------------------------------------------------------------------
(* Rejected inputs and calls out of order *)

(* the generator was given a period below 1 or a series with no bars *)
InvalidTrendInput == pc # "start" /\ edf # NoFrame /\ (ema_period < 1 \/ NRows(edf) = 0)

TrendColumnsAbsent == EmaName(ema_period) \notin edf.columns /\ SignalName(ema_period) \notin edf.columns /\ edf.EMA = <<>> /\ edf.Signal = <<>>

(* C12: with a period below 1 or an empty series the trend generator does  *)
(* not get past its EMA step (it ends with a ValueError) and the table     *)
(* gets neither the EMA column nor the signal column.                      *)
C12_ValidationError == InvalidTrendInput => (pc \in {"ema_init", "ValueError", "RuntimeError"} /\ TrendColumnsAbsent)

(* a MACDStrategy object exists *)
StrategyBuilt == df # NoFrame

(* C13: generate_signals called before calculate_ema ends in RuntimeError  *)
(* with the table left without a signal column and without signal cells;   *)
(* a MACDStrategy exists only over a frame that has both Close and the raw *)
(* crossover column, and after a ValueError there is no strategy to call   *)
(* simulate_trades on.                                                     *)
C13_PrerequisiteChecked == (pc = "RuntimeError" => (SignalName(ema_period) \notin edf.columns /\ edf.Signal = <<>> /\ ~StrategyBuilt)) /\ (StrategyBuilt => (Name("Close") \in df.columns /\ raw_sig \in df.columns)) /\ (pc = "ValueError" => ~StrategyBuilt)

C13_Witness == pc = "RuntimeError" /\ NRows(edf) >= 2 /\ ewm_accepts(ema_period) /\ EmaName(ema_period) \notin edf.columns

(* calculate_macd was never called on the strategy: every histogram cell is still pd.NA *)
HistogramAbsent == StrategyBuilt /\ NRows(df) >= 1 /\ (\A i \in Rows : isna(df.MACD_hist[i]))

NoAnnotations == \A i \in Rows : NoExitFields(i) /\ isna(df.entry_signal[i]) /\ isna(df.trade_id[i])

(* C14: a call of simulate_trades on a strategy whose histogram was never  *)
(* computed ends in an error and leaves no entry signal, trade id, exit    *)
(* signal, exit type or profit on any bar.                                 *)
C14_FailsBeforeMacd == (HistogramAbsent /\ pc \in {"done", "TypeError"}) => (pc = "TypeError" /\ NoAnnotations)

-----------------------------------------------------------------------------
(* The scan loop row by row *)

SameAnnotations(j) == df'.entry_signal[j] = df.entry_signal[j] /\ df'.exit_signal[j] = df.exit_signal[j] /\ df'.exit_type[j] = df.exit_type[j] /\ df'.profit[j] = df.profit[j] /\ df'.trade_id[j] = df.trade_id[j]

(* no row after the exit row of a trade carries that trade's id *)
ClosedIdsStayClosed == \A x \in AllExitRows : \A j \in Rows : j > x => df.trade_id[j] # df.trade_id[x]

(* C15: a step of simulate_trades at bar idx changes the entry signal,     *)
(* exit signal, exit type, profit and trade id of no row other than idx    *)
(* (the pass after the loop changes none of them), so the rows of a closed *)
(* trade keep their values, and the id of a closed trade is on no row      *)
(* after its exit row.                                                     *)
C15_WritesOnlyRowIdx == [][(pc = "scan") => ((\A j \in Rows : j # idx => SameAnnotations(j)) /\ ClosedIdsStayClosed /\ ClosedIdsStayClosed')]_vars

C15_Witness == \E x \in AllExitRows : \E j \in DoneRows : j > x /\ notna(df.entry_signal[j]) /\ df.trade_id[j] # df.trade_id[x]

(* the histogram on bar e already satisfies the momentum flip for the direction entered on e *)
FlipOnEntryBar(e) == (df.entry_signal[e] = <<"long">> /\ RLt(df.MACD_hist[e], Rat(0))) \/ (df.entry_signal[e] = <<"short">> /\ RGt(df.MACD_hist[e], Rat(0)))

(* C16: the bar that opens a trade carries no exit signal, exit type or    *)
(* profit, and the exit bar of every closed trade comes after its entry    *)
(* bar, whatever the histogram on the entry bar is.                        *)
C16_NoExitOnEntryBar == (\A e \in AllEntryRows : NoExitFields(e)) /\ (\A x \in AllExitRows : \A e \in EntryRows(df.trade_id[x][1]) : x > e)

C16_Witness == \E e \in AllEntryRows : FlipOnEntryBar(e) /\ (\E x \in ExitRows(df.trade_id[e][1]) : x > e)

-----------------------------------------------------------------------------
(* The name of the crossover column *)

(* the strategy is being built from the generator's output, whose crossover column is named after ema_period *)
BuildFromGenerator == pc = "signals_done" /\ SignalName(ema_period) \in edf.columns

(* the name the strategy looks for, derived from its slow period, is the generator's *)
SameName == raw_sig' = SignalName(ema_period)

Consumes == pc' = "strategy_init" /\ slow' = ema_period /\ raw_sig' \in df'.columns /\ df'.Signal = edf.Signal

Rejects == pc' = "ValueError" /\ df' = NoFrame

(* C17: built from the generator's output, a strategy whose slow period is *)
(* the generator's period reads the generator's crossover column; with a   *)
(* different slow period the construction ends in ValueError and no        *)
(* strategy exists to simulate trades on.                                  *)
C17_SignalNameBySlowPeriod == [][BuildFromGenerator => ((SameName => Consumes) /\ (~SameName => Rejects))]_vars

C17_Witness == pc = "done" /\ ema_period = DefaultEmaPeriod /\ slow = DefaultSlow /\ raw_sig = SignalName(DefaultSlow) /\ df.Signal = edf.Signal /\ AllEntryRows # {}

-----------------------------------------------------------------------------
(* The shape of the output *)

(* the exit tag that goes with the direction written on an entry bar *)
TagOfDirection(dir, tag) == (dir = <<"long">> /\ tag = <<"exit_long">>) \/ (dir = <<"short">> /\ tag = <<"exit_short">>)

OneEntryAtMostOneExit == \A t \in TradeIds : Cardinality(EntryRows(t)) = 1 /\ Cardinality(ExitRows(t)) <= 1

ExitFieldsTogether(x) == notna(df.trade_id[x]) /\ notna(df.exit_signal[x]) /\ notna(df.exit_type[x]) /\ notna(df.profit[x])

ExitTaggedAsEntered(x) == \A e \in EntryRows(df.trade_id[x][1]) : TagOfDirection(df.entry_signal[e], df.exit_signal[x])

ExitCountMatches == Cardinality(AllExitRows) \in {Cardinality(AllEntryRows), Cardinality(AllEntryRows) - 1}

(* C18: every trade id is on exactly one entry bar and at most one exit    *)
(* bar; a bar with an exit signal, exit type or profit has all three and a *)
(* trade id, and its exit signal names the direction written on the entry  *)
(* bar of that id; there are as many exit bars as entry bars, or one less. *)
C18_TradeShape == OneEntryAtMostOneExit /\ (\A x \in AllExitRows : ExitFieldsTogether(x) /\ ExitTaggedAsEntered(x)) /\ ExitCountMatches

C18_Witness == pc = "done" /\ Cardinality(AllEntryRows) = 2 /\ Cardinality(AllExitRows) = 1 /\ (\E x \in AllExitRows : df.exit_signal[x] = <<"exit_short">>)

-----------------------------------------------------------------------------
(* A crossover in the direction of the open trade *)

SameDirectionCross == InLoop /\ in_trade /\ df.Signal[idx] = position

(* the position state of the loop *)
PositionStateKept == trade_counter' = trade_counter /\ entry_price' = entry_price /\ position' = position

NotAnEntryNorCrossExit == isna(df'.entry_signal[idx]) /\ df'.trade_id[idx] = <<trade_counter>> /\ df'.exit_type[idx] # <<"ema_cross">>

(* what a bar without crossover does to an open trade: exit by the momentum flip or nothing *)
HandledAsNoCross == (MomentumFlip => (df'.exit_type[idx] = <<"macd">> /\ notna(df'.exit_signal[idx]) /\ ~in_trade')) /\ (~MomentumFlip => (in_trade' /\ isna(df'.exit_signal[idx]) /\ isna(df'.exit_type[idx]) /\ isna(df'.profit[idx])))

(* C19: on a bar whose crossover signal has the direction of the open      *)
(* trade, the trade counter, the entry price and the direction are kept,   *)
(* the bar gets no entry signal and no ema_cross exit, and the trade       *)
(* closes on that bar exactly when the momentum flip holds.                *)
C19_SameDirectionCrossIgnored == [][SameDirectionCross => (PositionStateKept /\ NotAnEntryNorCrossExit /\ HandledAsNoCross)]_vars

SameDirectionRow(j) == j \in DoneRows /\ notna(df.trade_id[j]) /\ isna(df.entry_signal[j]) /\ EntryRows(df.trade_id[j][1]) # {} /\ df.Signal[j] = df.entry_signal[EntryRowOf(j)]

C19_Witness == \E j, k \in Rows : SameDirectionRow(j) /\ isna(df.exit_signal[j]) /\ SameDirectionRow(k) /\ df.exit_type[k] = <<"macd">>

====
